---- MODULE Spec2Model ----
(***************************************************************************)
(* Resizable string lists of ctags (ctags/main/strlist.c).                 *)
(*                                                                         *)
(* A stringList is {max, count, list}: list points to max slots of         *)
(* vString pointers, of which the first count are in use.  The vStrings    *)
(* live on a heap of their own; a slot holds a handle into that heap.      *)
(* Slot i of the C array is list[i + 1] here (TLA+ sequences start at 1).  *)
(***************************************************************************)
EXTENDS Integers, Sequences, FiniteSets, TLC

VARIABLES
    sl,       \* the two stringList pointers of the caller, by name
    heap,     \* the vStrings ever allocated: heap[h] = [val, alive]
    cif,      \* whether the build defines CASE_INSENSITIVE_FILENAMES
    ret,      \* the last call: operation, container, argument, outcome, value
    access,   \* indices into current->list that the last call read or wrote
    addLog,   \* one entry per stringListAdd executed by the last call
    undo,     \* the elements before the last add (for add; removeLast)
    added,    \* handles passed to add, in call order (add-only runs)
    file,     \* the file stringListNewFromFile is given
    steps     \* calls made so far

vars == <<sl, heap, cif, ret, access, addLog, undo, added, file, steps>>

----------------------------------------------------------------------------
(* Bounds of the model *)

MaxCalls   == 3     \* calls a program of Spec or SpecFull makes
MaxArgc    == 2     \* longest argv given to stringListNewFromArgv in Spec
MaxAdds    == 11    \* adds in an add-only run (SpecAdd)
MaxFill    == 11    \* longest argv the first list of SpecFull is made from
MaxFrom    == 2     \* longest argv the second list of SpecFull is made from
MaxFileLen == 7     \* longest file, in bytes (SpecFile)

----------------------------------------------------------------------------
(* Values *)

incrementalIncrease == 10

NULL   == 0         \* the null pointer
UNINIT == -1        \* a slot handed out by xMalloc/xRealloc and never written

Containers == {"A", "B"}

\* C strings are sequences of character codes.
Str_a == <<97>>
Str_A == <<65>>
Str_b == <<98>>
Garbage == <<-1>>   \* what dereferencing a non-vString yields

Values == {Str_a, Str_b}
Keys   == {Str_a, Str_A, Str_b}

B2I(b) == IF b THEN 1 ELSE 0

\* The caller's pointer before any construction, and after stringListDelete.
NullList  == [st |-> "null",  max |-> 0, count |-> 0, list |-> <<>>]
FreedList == [st |-> "freed", max |-> 0, count |-> 0, list |-> <<>>]

\* current->list == NULL is the empty sequence: xMalloc is never asked for 0 slots.
ListIsNull(cur) == cur.list = <<>>

Fresh(n) == [i \in 1..n |-> UNINIT]

----------------------------------------------------------------------------
(* vString, as far as strlist.c uses it *)

vStringNewInit(hp, s) == Append(hp, [val |-> s, alive |-> TRUE])

vStringDelete(hp, h) ==
    IF h \in 1..Len(hp) THEN [hp EXCEPT ![h].alive = FALSE] ELSE hp

vStringValue(hp, h) == IF h \in 1..Len(hp) THEN hp[h].val ELSE Garbage

----------------------------------------------------------------------------
(* strlist.c *)

stringListNew == [st |-> "live", max |-> 0, count |-> 0, list |-> <<>>]

\* stringListAdd with the array replaced, not extended, when it grows.
stringListAddMalloc(current, string) ==
    LET grown ==
            IF ListIsNull(current) \/ current.count = current.max
            THEN [current EXCEPT !.max = @ + incrementalIncrease,
                                 !.list = Fresh(current.max + incrementalIncrease)]
            ELSE current
    IN  [grown EXCEPT !.list[grown.count + 1] = string, !.count = @ + 1]

\* stringListAdd growing one insert early.
stringListAddEarly(current, string) ==
    LET grown ==
            IF ListIsNull(current)
            THEN [current EXCEPT !.count = 0,
                                 !.max = incrementalIncrease,
                                 !.list = Fresh(incrementalIncrease)]
            ELSE IF current.count + 1 >= current.max
            THEN [current EXCEPT !.max = @ + incrementalIncrease,
                                 !.list = @ \o Fresh(incrementalIncrease)]
            ELSE current
    IN  [grown EXCEPT !.list[grown.count + 1] = string, !.count = @ + 1]

stringListAdd(current, string) ==
    LET grown ==
            IF ListIsNull(current)
            THEN [current EXCEPT !.count = 0,
                                 !.max = incrementalIncrease,
                                 !.list = Fresh(incrementalIncrease)]
            ELSE IF current.count = current.max
            THEN [current EXCEPT !.max = @ + incrementalIncrease,
                                 !.list = @ \o Fresh(incrementalIncrease)]
            ELSE current
    IN  [grown EXCEPT !.list[grown.count + 1] = string, !.count = @ + 1]

\* stringListRemoveLast clearing the slot before the last one.
stringListRemoveLastOff(current) ==
    IF current.count >= 2
    THEN [current EXCEPT !.count = @ - 1, !.list[current.count - 1] = NULL]
    ELSE [current EXCEPT !.count = @ - 1]

stringListRemoveLast(current) ==
    [current EXCEPT !.count = @ - 1, !.list[current.count] = NULL]

\* The loop of stringListClear from index i on.
RECURSIVE ClearFrom(_, _, _)
ClearFrom(current, hp, i) ==
    IF i < current.count
    THEN ClearFrom([current EXCEPT !.list[i + 1] = NULL],
                   vStringDelete(hp, current.list[i + 1]), i + 1)
    ELSE [cur |-> [current EXCEPT !.count = 0], hp |-> hp]

stringListClear(current, hp) == ClearFrom(current, hp, 0)

stringListDelete(current, hp) ==
    IF current.st = "null"
    THEN [cur |-> current, hp |-> hp]
    ELSE LET c == IF ListIsNull(current)
                  THEN [cur |-> current, hp |-> hp]
                  ELSE stringListClear(current, hp)
         IN  [cur |-> FreedList, hp |-> c.hp]

\* What one stringListAdd does to the capacity.
AddEntry(current, string) ==
    [count |-> current.count, max |-> current.max,
     newmax |-> stringListAdd(current, string).max]

\* The loop of stringListCombine leaving the moved pointers in from.
RECURSIVE CombineFromKeep(_, _, _, _)
CombineFromKeep(current, from, i, log) ==
    IF i < from.count
    THEN CombineFromKeep(stringListAdd(current, from.list[i + 1]),
                         from,
                         i + 1,
                         Append(log, AddEntry(current, from.list[i + 1])))
    ELSE [cur |-> current, from |-> from, log |-> log]

\* The loop of stringListCombine from index i on.
RECURSIVE CombineFrom(_, _, _, _)
CombineFrom(current, from, i, log) ==
    IF i < from.count
    THEN CombineFrom(stringListAdd(current, from.list[i + 1]),
                     [from EXCEPT !.list[i + 1] = NULL],
                     i + 1,
                     Append(log, AddEntry(current, from.list[i + 1])))
    ELSE [cur |-> current, from |-> from, log |-> log]

stringListCombine(current, from, hp) ==
    LET l == CombineFrom(current, from, 0, <<>>)
        d == stringListDelete(l.from, hp)
    IN  [cur |-> l.cur, from |-> d.cur, hp |-> d.hp, log |-> l.log]

stringListNewFromArgv(argv, hp) ==
    LET RECURSIVE ArgvFrom(_, _, _, _)
        ArgvFrom(result, h, p, log) ==
            IF p <= Len(argv)
            THEN ArgvFrom(stringListAdd(result, Len(h) + 1),
                          vStringNewInit(h, argv[p]),
                          p + 1,
                          Append(log, AddEntry(result, Len(h) + 1)))
            ELSE [cur |-> result, hp |-> h, log |-> log]
    IN  ArgvFrom(stringListNew, hp, 1, <<>>)

stringListCount(current) == current.count

\* list[indx] without any check: a slot never written, or one past the
\* array, yields whatever the memory holds (oob).
stringListItem(current, indx, oob) ==
    IF indx < Len(current.list) THEN current.list[indx + 1] ELSE oob

stringListLast(current) == current.list[current.count]

ToLower(ch) == IF ch \in 65..90 THEN ch + 32 ELSE ch

compareString(string, hp, itm) == string = vStringValue(hp, itm)

\* compareStringInsensitive calling strcmp.
compareStringExact(string, hp, itm) == string = vStringValue(hp, itm)

compareStringInsensitive(string, hp, itm) ==
    LET v == vStringValue(hp, itm)
    IN  /\ Len(string) = Len(v)
        /\ \A k \in 1..Len(v) : ToLower(string[k]) = ToLower(v[k])

\* (*test)(string, itm), test being one of the two comparators.
Test(test, string, hp, itm) ==
    IF test = "compareStringInsensitive"
    THEN compareStringInsensitive(string, hp, itm)
    ELSE compareString(string, hp, itm)

RECURSIVE IndexFrom(_, _, _, _, _)
IndexFrom(current, hp, string, test, i) ==
    IF i < current.count
    THEN IF Test(test, string, hp, current.list[i + 1])
         THEN i
         ELSE IndexFrom(current, hp, string, test, i + 1)
    ELSE -1

stringListIndex(current, hp, string, test) ==
    IndexFrom(current, hp, string, test, 0)

\* The slots the loop of stringListIndex reads before it stops at where.
IndexReads(current, where) ==
    IF where = -1 THEN 0 .. current.count - 1 ELSE 0 .. where

stringListHas(current, hp, string) ==
    stringListIndex(current, hp, string, "compareString") # -1

stringListHasInsensitive(current, hp, string) ==
    stringListIndex(current, hp, string, "compareStringInsensitive") # -1

\* memmove (list + dst, list + src, n slots): a slot read past the array
\* yields oob; a slot past the array is not stored.
MemMove(list, dst, src, n, oob) ==
    [i \in 1..Len(list) |->
        IF dst <= i - 1 /\ i - 1 < dst + n
        THEN LET j == src + (i - 1 - dst)
             IN  IF j < Len(list) THEN list[j + 1] ELSE oob
        ELSE list[i]]

\* The slots that memmove reads and writes.
MemMoveAccess(dst, src, n) == (src .. src + n - 1) \cup (dst .. dst + n - 1)

ExtensionTest(ci) ==
    IF ci THEN "compareStringInsensitive" ELSE "compareString"

\* stringListRemoveExtension filling the hole with the last element.
stringListRemoveExtensionSwap(current, hp, extension, ci, oob) ==
    LET where == stringListIndex(current, hp, extension, ExtensionTest(ci))
    IN  IF where # -1
        THEN [cur |-> [current EXCEPT
                          !.list = [@ EXCEPT ![where + 1] = current.list[current.count],
                                             ![current.count] = NULL],
                          !.count = @ - 1],
              result |-> TRUE,
              access |-> IndexReads(current, where) \cup {current.count - 1}]
        ELSE [cur |-> current, result |-> FALSE,
              access |-> IndexReads(current, where)]

stringListRemoveExtension(current, hp, extension, ci, oob) ==
    LET where == stringListIndex(current, hp, extension, ExtensionTest(ci))
    IN  IF where # -1
        THEN LET moved == MemMove(current.list, where, where + 1,
                                  current.count - where, oob)
             IN  [cur |-> [current EXCEPT
                              !.list = [moved EXCEPT ![current.count] = NULL],
                              !.count = @ - 1],
                  result |-> TRUE,
                  access |-> IndexReads(current, where)
                             \cup MemMoveAccess(where, where + 1,
                                                current.count - where)
                             \cup {current.count - 1}]
        ELSE [cur |-> current, result |-> FALSE,
              access |-> IndexReads(current, where)]

----------------------------------------------------------------------------
(* The line reader and the string trimming stringListNewFromFile relies on *)

NewLine == 10
IsSpace(ch) == ch \in {9, 10, 11, 12, 13, 32}

\* NULL when the file cannot be opened.
mio_new_file_full(f) ==
    [open |-> f.openable, data |-> f.data, pos |-> 0, eof |-> FALSE]

mio_eof(mio) == mio.eof

\* The next raw line, without its terminator; the end-of-stream flag is
\* raised by the read that runs into the end of the data.
readLineRaw(mio) ==
    LET n    == Len(mio.data)
        nls  == {j \in mio.pos + 1 .. n : mio.data[j] = NewLine}
        stop == IF nls = {} THEN n + 1
                ELSE CHOOSE j \in nls : \A k \in nls : j <= k
    IN  [line |-> SubSeq(mio.data, mio.pos + 1, stop - 1),
         mio  |-> [mio EXCEPT !.pos = IF stop > n THEN n ELSE stop,
                              !.eof = stop > n]]

RECURSIVE vStringStripTrailing(_)
vStringStripTrailing(str) ==
    IF Len(str) > 0 /\ IsSpace(str[Len(str)])
    THEN vStringStripTrailing(SubSeq(str, 1, Len(str) - 1))
    ELSE str

vStringLength(str) == Len(str)

\* The while loop of stringListNewFromFile adding every line it reads.
RECURSIVE FileFromKeepEmpty(_, _, _)
FileFromKeepEmpty(result, hp, mio) ==
    IF ~ mio_eof(mio)
    THEN LET r   == readLineRaw(mio)
             str == vStringStripTrailing(r.line)
         IN  FileFromKeepEmpty(stringListAdd(result, Len(hp) + 1),
                               vStringNewInit(hp, str), r.mio)
    ELSE [cur |-> result, hp |-> hp]

\* The while loop of stringListNewFromFile.
RECURSIVE FileFrom(_, _, _)
FileFrom(result, hp, mio) ==
    IF ~ mio_eof(mio)
    THEN LET r   == readLineRaw(mio)
             str == vStringStripTrailing(r.line)
             h   == Len(hp) + 1
             hp1 == vStringNewInit(hp, str)
         IN  IF vStringLength(str) > 0
             THEN FileFrom(stringListAdd(result, h), hp1, r.mio)
             ELSE FileFrom(result, vStringDelete(hp1, h), r.mio)
    ELSE [cur |-> result, hp |-> hp]

stringListNewFromFile(f, hp) ==
    LET mio == mio_new_file_full(f)
    IN  IF mio.open
        THEN FileFrom(stringListNew, hp, mio)
        ELSE [cur |-> NullList, hp |-> hp]

----------------------------------------------------------------------------
(* The calls a program makes, one action per function of strlist.h *)

Elems(cur) == SubSeq(cur.list, 1, cur.count)

NoUndo == [c |-> "", stage |-> "none", elems |-> <<>>]

NoRet == [op |-> "", c |-> "", arg |-> <<>>, out |-> "ok", val |-> 0]

\* A failed assertion or a crash ends the process.
Running == ret.out = "ok"

Usable(c) == Running /\ sl[c].st = "live"

Returns(op, c, arg, val, acc, log, un) ==
    /\ ret' = [op |-> op, c |-> c, arg |-> arg, out |-> "ok", val |-> val]
    /\ access' = acc
    /\ addLog' = log
    /\ undo' = un

\* The fatal assertion: the call does not return and nothing is modified.
Fatal(op, c, arg) ==
    /\ ret' = [op |-> op, c |-> c, arg |-> arg, out |-> "assert", val |-> 0]
    /\ access' = {}
    /\ addLog' = <<>>
    /\ undo' = NoUndo
    /\ UNCHANGED <<sl, heap>>

New(c) ==
    /\ Running
    /\ sl[c].st # "live"
    /\ sl' = [sl EXCEPT ![c] = stringListNew]
    /\ Returns("new", c, <<>>, 0, {}, <<>>, NoUndo)
    /\ UNCHANGED heap

NewFromArgv(c, argv) ==
    /\ Running
    /\ sl[c].st # "live"
    /\ LET r == stringListNewFromArgv(argv, heap)
       IN  /\ sl' = [sl EXCEPT ![c] = r.cur]
           /\ heap' = r.hp
           /\ Returns("newFromArgv", c, <<>>, 0, {}, r.log, NoUndo)

\* The caller makes a vString of value v and hands it to the list.
Add(c, v) ==
    /\ Usable(c)
    /\ LET h == Len(heap) + 1
       IN  /\ heap' = vStringNewInit(heap, v)
           /\ sl' = [sl EXCEPT ![c] = stringListAdd(sl[c], h)]
           /\ Returns("add", c, v, h, {sl[c].count},
                      <<AddEntry(sl[c], h)>>,
                      [c |-> c, stage |-> "add", elems |-> Elems(sl[c])])

RemoveLast(c) ==
    /\ Usable(c)
    /\ IF sl[c].count > 0
       THEN /\ sl' = [sl EXCEPT ![c] = stringListRemoveLast(sl[c])]
            /\ Returns("removeLast", c, <<>>, sl[c].list[sl[c].count],
                       {sl[c].count - 1}, <<>>,
                       IF undo.stage = "add" /\ undo.c = c
                       THEN [undo EXCEPT !.stage = "addRemoveLast"]
                       ELSE NoUndo)
            /\ UNCHANGED heap
       ELSE Fatal("removeLast", c, <<>>)

Combine(c, d) ==
    /\ Usable(c)
    /\ Usable(d)
    /\ c # d
    /\ LET r == stringListCombine(sl[c], sl[d], heap)
       IN  /\ sl' = [sl EXCEPT ![c] = r.cur, ![d] = r.from]
           /\ heap' = r.hp
           /\ Returns("combine", c, <<>>, 0, {}, r.log, NoUndo)

Clear(c) ==
    /\ Usable(c)
    /\ LET r == stringListClear(sl[c], heap)
       IN  /\ sl' = [sl EXCEPT ![c] = r.cur]
           /\ heap' = r.hp
           /\ Returns("clear", c, <<>>, 0, 0 .. sl[c].count - 1, <<>>, NoUndo)

\* stringListDelete takes a null pointer as well.
Delete(c) ==
    /\ Running
    /\ sl[c].st # "freed"
    /\ LET r == stringListDelete(sl[c], heap)
       IN  /\ sl' = [sl EXCEPT ![c] = r.cur]
           /\ heap' = r.hp
           /\ Returns("delete", c, <<>>, 0, {}, <<>>, NoUndo)

RemoveExtension(c, ext) ==
    /\ Usable(c)
    /\ \E oob \in {NULL, UNINIT} :
         LET r == stringListRemoveExtension(sl[c], heap, ext, cif, oob)
         IN  /\ sl' = [sl EXCEPT ![c] = r.cur]
             /\ Returns("removeExtension", c, ext, B2I(r.result),
                        r.access, <<>>, NoUndo)
    /\ UNCHANGED heap

Count(c) ==
    /\ Usable(c)
    /\ Returns("count", c, <<>>, stringListCount(sl[c]), {}, <<>>, NoUndo)
    /\ UNCHANGED <<sl, heap>>

\* list[indx] on a list that is NULL dereferences the null pointer.
Item(c, indx) ==
    /\ Usable(c)
    /\ \/ /\ ListIsNull(sl[c])
          /\ ret' = [op |-> "item", c |-> c, arg |-> <<indx>>,
                     out |-> "segv", val |-> 0]
          /\ access' = {indx}
          /\ addLog' = <<>>
          /\ undo' = NoUndo
       \/ \E oob \in {NULL, UNINIT} :
            Returns("item", c, <<indx>>, stringListItem(sl[c], indx, oob),
                    {indx}, <<>>, NoUndo)
    /\ UNCHANGED <<sl, heap>>

Last(c) ==
    /\ Usable(c)
    /\ IF sl[c].count > 0
       THEN /\ Returns("last", c, <<>>, stringListLast(sl[c]),
                       {sl[c].count - 1}, <<>>, NoUndo)
            /\ UNCHANGED <<sl, heap>>
       ELSE Fatal("last", c, <<>>)

Has(c, string) ==
    /\ Usable(c)
    /\ Returns("has", c, string, B2I(stringListHas(sl[c], heap, string)),
               IndexReads(sl[c],
                   stringListIndex(sl[c], heap, string, "compareString")),
               <<>>, NoUndo)
    /\ UNCHANGED <<sl, heap>>

HasInsensitive(c, string) ==
    /\ Usable(c)
    /\ Returns("hasInsensitive", c, string,
               B2I(stringListHasInsensitive(sl[c], heap, string)),
               IndexReads(sl[c],
                   stringListIndex(sl[c], heap, string,
                                   "compareStringInsensitive")),
               <<>>, NoUndo)
    /\ UNCHANGED <<sl, heap>>

----------------------------------------------------------------------------
(* Spec: any program of at most MaxCalls calls over two lists *)

RECURSIVE SeqsUpTo(_, _)
SeqsUpTo(S, n) ==
    IF n = 0 THEN {<<>>}
    ELSE LET shorter == SeqsUpTo(S, n - 1)
         IN  shorter \cup {Append(q, x) : q \in shorter, x \in S}

Argvs == SeqsUpTo(Values, MaxArgc)

NoFile == [openable |-> FALSE, data |-> <<>>]

Init ==
    /\ sl = [c \in Containers |-> NullList]
    /\ heap = <<>>
    /\ cif \in BOOLEAN
    /\ ret = NoRet
    /\ access = {}
    /\ addLog = <<>>
    /\ undo = NoUndo
    /\ added = <<>>
    /\ file = NoFile
    /\ steps = 0

ItemIndexes(cur) == {0, cur.count, cur.max}

Next ==
    /\ steps < MaxCalls
    /\ steps' = steps + 1
    /\ UNCHANGED <<cif, added, file>>
    /\ \/ \E c \in Containers : New(c)
       \/ \E c \in Containers : \E argv \in Argvs : NewFromArgv(c, argv)
       \/ \E c \in Containers : \E v \in Values : Add(c, v)
       \/ \E c \in Containers : RemoveLast(c)
       \/ \E c, d \in Containers : Combine(c, d)
       \/ \E c \in Containers : Clear(c)
       \/ \E c \in Containers : Delete(c)
       \/ \E c \in Containers : \E ext \in Keys : RemoveExtension(c, ext)
       \/ \E c \in Containers : Count(c)
       \/ \E c \in Containers : \E indx \in ItemIndexes(sl[c]) : Item(c, indx)
       \/ \E c \in Containers : Last(c)
       \/ \E c \in Containers : \E s \in Keys : Has(c, s)
       \/ \E c \in Containers : \E s \in Keys : HasInsensitive(c, s)

Spec == Init /\ [][Next]_vars

----------------------------------------------------------------------------
(* SpecAdd: one list made by stringListNew, then adds only *)

NewTracked ==
    /\ sl["A"].st = "null"
    /\ New("A")
    /\ UNCHANGED <<cif, added, file, steps>>

AddTracked ==
    /\ Len(added) < MaxAdds
    /\ \E v \in Values : Add("A", v)
    /\ added' = Append(added, Len(heap) + 1)
    /\ UNCHANGED <<cif, file, steps>>

NextAdd == NewTracked \/ AddTracked

SpecAdd == Init /\ [][NextAdd]_vars

----------------------------------------------------------------------------
(* SpecFull: a list filled to just below, to and beyond its capacity, a   *)
(* short second list, and the calls that change a list                   *)

\* n strings "b", the k-th replaced by "a".
FillArgv(n, k) == [i \in 1..n |-> IF i = k THEN Str_a ELSE Str_b]

FillArgvs ==
    {FillArgv(n, k) : n \in incrementalIncrease - 1 .. MaxFill,
                      k \in {0, 1, incrementalIncrease \div 2,
                              incrementalIncrease - 1, incrementalIncrease}}

FromArgvs == SeqsUpTo(Values, MaxFrom)

NextFull ==
    /\ steps < MaxCalls
    /\ steps' = steps + 1
    /\ UNCHANGED <<cif, added, file>>
    /\ \/ \E argv \in FillArgvs : NewFromArgv("A", argv)
       \/ \E argv \in FromArgvs : NewFromArgv("B", argv)
       \/ \E c \in Containers : New(c)
       \/ \E c \in Containers : \E v \in Values : Add(c, v)
       \/ \E c \in Containers : RemoveLast(c)
       \/ \E c, d \in Containers : Combine(c, d)
       \/ \E c \in Containers : Clear(c)
       \/ \E c \in Containers : Delete(c)
       \/ \E c \in Containers : \E ext \in Keys : RemoveExtension(c, ext)

SpecFull == Init /\ [][NextFull]_vars

----------------------------------------------------------------------------
(* SpecFile: stringListNewFromFile on every short file *)

FileChars == {97, 98, 32, NewLine}

Files == {[openable |-> TRUE, data |-> d] : d \in SeqsUpTo(FileChars, MaxFileLen)}
            \cup {NoFile}

NewFromFile ==
    /\ Running
    /\ sl["A"].st = "null"
    /\ ret.op = ""
    /\ LET r == stringListNewFromFile(file, heap)
       IN  /\ sl' = [sl EXCEPT !["A"] = r.cur]
           /\ heap' = r.hp
           /\ Returns("newFromFile", "A", <<>>, 0, {}, <<>>, NoUndo)
    /\ UNCHANGED <<cif, added, file, steps>>

InitFile ==
    /\ sl = [c \in Containers |-> NullList]
    /\ heap = <<>>
    /\ cif = FALSE
    /\ ret = NoRet
    /\ access = {}
    /\ addLog = <<>>
    /\ undo = NoUndo
    /\ added = <<>>
    /\ file \in Files
    /\ steps = 0

NextFile == NewFromFile

SpecFile == InitFile /\ [][NextFile]_vars

----------------------------------------------------------------------------
(* Properties *)

\* A step that is a call (stuttering steps make none).
Called(op) == steps' # steps /\ ret'.op = op

Other(c) == CHOOSE d \in Containers : d # c

ValuesOf(hp, hs) == [i \in 1..Len(hs) |-> vStringValue(hp, hs[i])]

Lower(str) == [k \in 1..Len(str) |-> ToLower(str[k])]

\* C1: after n adds to a list made by stringListNew, stringListCount is n
\* and stringListItem (i) is the i-th string added, for every i below n.
C1_AddOrder ==
    sl["A"].st = "live" =>
        /\ stringListCount(sl["A"]) = Len(added)
        /\ \A i \in 0 .. Len(added) - 1 :
             stringListItem(sl["A"], i, UNINIT) = added[i + 1]

C1_Witness ==
    /\ Len(added) = incrementalIncrease + 1
    /\ sl["A"].count = incrementalIncrease + 1
    /\ sl["A"].list[incrementalIncrease + 1] = added[incrementalIncrease + 1]

\* C2: stringListCombine (A, B) leaves in A the elements A had followed by
\* those B had, in order; B is freed; no string that went from B to A is
\* deleted.
C2_Combine ==
    [][Called("combine") =>
          LET c == ret'.c
              d == Other(ret'.c)
          IN  /\ Elems(sl'[c]) = Elems(sl[c]) \o Elems(sl[d])
              /\ sl'[d].st = "freed"
              /\ \A i \in 1 .. sl[d].count : heap'[sl[d].list[i]].alive
              /\ \A i \in 1 .. sl'[c].count : heap'[sl'[c].list[i]].alive]_vars

C2_Witness ==
    /\ ret.op = "combine"
    /\ Len(addLog) >= 2
    /\ sl[ret.c].count > Len(addLog)
    /\ sl[Other(ret.c)].st = "freed"

\* The comparison stringListRemoveExtension uses on this platform.
PlatformEqual(x, y) == IF cif THEN Lower(x) = Lower(y) ELSE x = y

\* C3: stringListRemoveExtension (ext) removes the first element equal to
\* ext under the platform comparison, keeps the others in order, lowers
\* count by one and returns true; with no such element it returns false and
\* leaves the list as it was.
C3_RemoveExtension ==
    [][Called("removeExtension") =>
          LET c   == ret'.c
              old == Elems(sl[c])
              M   == {i \in 1 .. Len(old) :
                        PlatformEqual(ret'.arg, heap[old[i]].val)}
          IN  IF M # {}
              THEN LET f == CHOOSE i \in M : \A j \in M : i <= j
                   IN  /\ ret'.val = 1
                       /\ sl'[c].count = sl[c].count - 1
                       /\ Elems(sl'[c]) = SubSeq(old, 1, f - 1)
                                             \o SubSeq(old, f + 1, Len(old))
              ELSE /\ ret'.val = 0
                   /\ sl'[c] = sl[c]]_vars

\* An element was removed from a full list that holds its value again.
C3_Witness ==
    /\ ret.op = "removeExtension"
    /\ ret.val = 1
    /\ sl[ret.c].max = incrementalIncrease
    /\ sl[ret.c].count = incrementalIncrease - 1
    /\ \E i \in 1 .. sl[ret.c].count :
         heap[sl[ret.c].list[i]].val = ret.arg

\* C4: stringListAdd (x) followed by stringListRemoveLast leaves count and
\* the elements below count as they were before the add.
C4_AddRemoveLast ==
    undo.stage = "addRemoveLast" =>
        /\ sl[undo.c].count = Len(undo.elems)
        /\ Elems(sl[undo.c]) = undo.elems

C4_Witness ==
    /\ undo.stage = "addRemoveLast"
    /\ Len(undo.elems) >= 2
    /\ ret.op = "removeLast"
    /\ ret.out = "ok"

\* C5: stringListHas (x) is true exactly when some element below count is
\* byte-wise equal to x, stringListHasInsensitive (x) exactly when some such
\* element equals x up to case; neither reads a slot at or above count and
\* neither changes the list.
C5_Has ==
    [][(Called("has") \/ Called("hasInsensitive")) =>
          LET cur == sl[ret'.c]
          IN  /\ sl' = sl
              /\ heap' = heap
              /\ access' \subseteq 0 .. cur.count - 1
              /\ Called("has") =>
                   (ret'.val = 1 <=>
                      \E i \in 1 .. cur.count :
                         heap[cur.list[i]].val = ret'.arg)
              /\ Called("hasInsensitive") =>
                   (ret'.val = 1 <=>
                      \E i \in 1 .. cur.count :
                         Lower(heap[cur.list[i]].val) = Lower(ret'.arg))]_vars

\* A search that succeeds only by ignoring case.
C5_Witness ==
    /\ ret.op = "hasInsensitive"
    /\ ret.val = 1
    /\ sl[ret.c].count >= 1
    /\ \A i \in 1 .. sl[ret.c].count : heap[sl[ret.c].list[i]].val # ret.arg

\* C6: stringListItem with an index at or above count, stringListLast with
\* count 0 and stringListRemoveLast with count 0 all end in the fatal
\* assertion, without returning and without changing the list.
C6_FatalPreconditions ==
    [][/\ (Called("item") /\ ret'.arg[1] >= sl[ret'.c].count) =>
             (ret'.out = "assert" /\ sl' = sl)
       /\ (Called("last") /\ sl[ret'.c].count = 0) =>
             (ret'.out = "assert" /\ sl' = sl)
       /\ (Called("removeLast") /\ sl[ret'.c].count = 0) =>
             (ret'.out = "assert" /\ sl' = sl)]_vars

\* The lines of a file: the stretches between line feeds.
LineStarts(data) ==
    {s \in 1 .. Len(data) + 1 : s = 1 \/ data[s - 1] = NewLine}

LineAt(data, s) ==
    LET e == CHOOSE j \in s .. Len(data) + 1 :
                /\ j = Len(data) + 1 \/ data[j] = NewLine
                /\ \A k \in s .. j - 1 : data[k] # NewLine
    IN  SubSeq(data, s, e - 1)

Stripped(line) ==
    LET keep == {k \in 1 .. Len(line) : ~ IsSpace(line[k])}
    IN  IF keep = {} THEN <<>>
        ELSE SubSeq(line, 1, CHOOSE k \in keep : \A m \in keep : m <= k)

RECURSIVE LinesFrom(_, _)
LinesFrom(data, starts) ==
    IF starts = {} THEN <<>>
    ELSE LET s    == CHOOSE x \in starts : \A y \in starts : x <= y
             line == Stripped(LineAt(data, s))
         IN  (IF line = <<>> THEN <<>> ELSE <<line>>)
                 \o LinesFrom(data, starts \ {s})

\* C7: stringListNewFromFile on a file that opens returns a list of the
\* file's lines in order, each without its trailing white space, the lines
\* that are empty then left out; on a file that does not open it returns
\* NULL.
C7_FromFile ==
    ret.op = "newFromFile" =>
        IF file.openable
        THEN /\ sl["A"].st = "live"
             /\ ValuesOf(heap, Elems(sl["A"]))
                    = LinesFrom(file.data, LineStarts(file.data))
             /\ \A i \in 1 .. sl["A"].count : heap[sl["A"].list[i]].alive
        ELSE sl["A"].st = "null"

\* The file "a\n\nb  \n" was read.
C7_Witness ==
    /\ ret.op = "newFromFile"
    /\ file.data = <<97, 10, 10, 98, 32, 32, 10>>
    /\ ValuesOf(heap, Elems(sl["A"])) = <<Str_a, Str_b>>

\* The adds a call made account for the capacity going from max0 to max1:
\* each grows it by incrementalIncrease exactly when count = max before it.
AddsAccount(log, count0, max0, max1) ==
    /\ \A i \in 1 .. Len(log) :
         /\ log[i].count = count0 + i - 1
         /\ log[i].max = IF i = 1 THEN max0 ELSE log[i - 1].newmax
         /\ log[i].newmax = IF log[i].count = log[i].max
                            THEN log[i].max + incrementalIncrease
                            ELSE log[i].max
    /\ max1 = IF log = <<>> THEN max0 ELSE log[Len(log)].newmax

\* C8: count <= max in every state; max changes only inside stringListAdd,
\* by incrementalIncrease and exactly when count = max before that add;
\* stringListRemoveLast, stringListRemoveExtension and stringListClear leave
\* max alone.
C8_Capacity ==
    [][\A c \in Containers :
          /\ sl'[c].count <= sl'[c].max
          /\ (sl[c].st = "live" /\ sl'[c].st = "live") =>
                IF steps' # steps /\ ret'.c = c /\ ret'.op \in {"add", "combine"}
                THEN AddsAccount(addLog', sl[c].count, sl[c].max, sl'[c].max)
                ELSE sl'[c].max = sl[c].max
          /\ (Called("newFromArgv") /\ ret'.c = c) =>
                AddsAccount(addLog', 0, 0, sl'[c].max)]_vars

\* An add found the list full and grew it a second time.
C8_Witness ==
    /\ ret.op = "add"
    /\ addLog[1].count = incrementalIncrease
    /\ addLog[1].max = incrementalIncrease
    /\ sl[ret.c].max = 2 * incrementalIncrease
    /\ sl[ret.c].count = incrementalIncrease + 1

\* C9: stringListRemoveLast deletes the string in the last used slot: once
\* it has returned, that string is no longer alive.
C9_RemoveLastDeletes ==
    (ret.op = "removeLast" /\ ret.out = "ok") =>
        /\ ~ heap[ret.val].alive
        /\ sl[ret.c].list[sl[ret.c].count + 1] = NULL

\* C10: stringListRemoveExtension reads and writes only slots 0 .. max - 1.
C10_RemoveExtensionInBounds ==
    ret.op = "removeExtension" => access \subseteq 0 .. sl[ret.c].max - 1

====
